---- MODULE Spec2Model ----
(***************************************************************************)
(* Model of src/main.py, the Project Zomboid server log filter:            *)
(* parse_log_file, should_include_entry, extract_timestamp_and_body,       *)
(* deduplicate_entries, format_timestamp_range, generate_report and main.  *)
(*                                                                         *)
(* A Python str is a sequence of one-character strings.  A file is the     *)
(* sequence of lines that iterating over the text-mode file object yields: *)
(* every line ends with "\n" except possibly the last one.                 *)
(***************************************************************************)
EXTENDS Integers, Sequences, FiniteSets, TLC

VARIABLES
    lines,            \* the lines the text-mode iterator of the input file yields
    entries,          \* parse_log_file: entries; the argument of the later stages
    filtered_entries, \* main: filtered_entries
    body_to_entry,    \* deduplicate_entries: the dict from body to group
    unique_entries,   \* deduplicate_entries: the list returned
    rerun_entries,    \* deduplicate_entries called on the list it returned
    timestamp_list,   \* format_timestamp_range: its argument
    keywords,         \* additional_keywords: None or a list of str
    current_entry,    \* parse_log_file: current_entry (None or a dict)
    pos,              \* number of items the loop under way has consumed
    input_exists,     \* main: log_file_path.exists()
    output_file,      \* generate_report: None until opened, then what was written
    stderr,           \* what was printed to sys.stderr
    result,           \* None, or the value returned by the pure function called
    exit_code,        \* None while main runs, then the process's exit code
    pc                \* the function under way and its position

vars == <<lines, entries, filtered_entries, body_to_entry, unique_entries,
          rerun_entries, timestamp_list, keywords, current_entry, pos, input_exists,
          output_file, stderr, result, exit_code, pc>>

\* Optional values are sequences of length at most one: None is the empty sequence.
None == <<>>
Some(x) == <<x>>

(***************************************************************************)
(* Bounds of the model.                                                    *)
(***************************************************************************)
MaxLines == 4       \* lines of a file in the segmenter's specification
MaxRecords == 3     \* records handed to deduplicate_entries
MaxTimestamps == 3  \* timestamps handed to format_timestamp_range
MaxFileLines == 3   \* lines of a file in main's specification
MaxKeywords == 2    \* extra keywords handed to should_include_entry

(***************************************************************************)
(* Characters and str helpers.                                             *)
(***************************************************************************)
\* The characters \s matches and str.strip() removes (those the model uses).
Whitespace == {" ", "\t", "\n", "\r"}

\* The characters \d matches.
Digits == {"0", "1", "2", "3", "4", "5", "6", "7", "8", "9"}

UpperCase == <<"A","B","C","D","E","F","G","H","I","J","K","L","M",
               "N","O","P","Q","R","S","T","U","V","W","X","Y","Z">>
LowerCase == <<"a","b","c","d","e","f","g","h","i","j","k","l","m",
               "n","o","p","q","r","s","t","u","v","w","x","y","z">>

\* str.lower() on one character.
LowerChar(c) ==
    IF \E k \in 1..Len(UpperCase) : UpperCase[k] = c
    THEN LowerCase[CHOOSE k \in 1..Len(UpperCase) : UpperCase[k] = c]
    ELSE c

\* str.lower()
Lower(s) == [k \in 1..Len(s) |-> LowerChar(s[k])]

\* needle in hay
Contains(hay, needle) ==
    \E i \in 1..(Len(hay) - Len(needle) + 1) :
        \A k \in 1..Len(needle) : hay[i + k - 1] = needle[k]

\* s.startswith(p, i-1): p occurs in s at (1-based) index i
MatchesAt(s, i, p) ==
    /\ i + Len(p) - 1 <= Len(s)
    /\ \A k \in 1..Len(p) : s[i + k - 1] = p[k]

\* Greedy run of a character class from index i (the regex's \s*, \S+, \d+): the
\* index of the first character at or after i that is not in the class, Len(s)+1
\* when the run reaches the end.
SkipIn(s, i, class) ==
    CHOOSE j \in i..(Len(s) + 1) :
        /\ (j = Len(s) + 1 \/ s[j] \notin class)
        /\ \A k \in i..(j - 1) : s[k] \in class

SkipNotIn(s, i, class) ==
    CHOOSE j \in i..(Len(s) + 1) :
        /\ (j = Len(s) + 1 \/ s[j] \in class)
        /\ \A k \in i..(j - 1) : s[k] \notin class

\* Index of the last character that is not whitespace, 0 when there is none.
LastNonSpace(s) ==
    CHOOSE j \in 0..Len(s) :
        /\ (j = 0 \/ s[j] \notin Whitespace)
        /\ \A k \in (j + 1)..Len(s) : s[k] \in Whitespace

\* str.strip()
Strip(s) == SubSeq(s, SkipIn(s, 1, Whitespace), LastNonSpace(s))

\* The level tags of the two regular expressions, in the alternation's order.
LOG == <<"L", "O", "G">>
WARN == <<"W", "A", "R", "N">>
ERROR == <<"E", "R", "R", "O", "R">>

(***************************************************************************)
(* parse_log_file                                                          *)
(***************************************************************************)
\* \s*: after the level lv (None or group(1)).
ColonAfter(line, lv, j) ==
    IF j <= Len(line) /\ line[j] = ":" THEN lv ELSE None

\* (LOG|WARN|ERROR) at the start of a line: None, or group(1).
LevelOf(line) ==
    IF MatchesAt(line, 1, LOG) THEN Some(LOG)
    ELSE IF MatchesAt(line, 1, WARN) THEN Some(WARN)
    ELSE IF MatchesAt(line, 1, ERROR) THEN Some(ERROR)
    ELSE None

EntryStartAfter(line, lv) ==
    IF lv # None
    THEN ColonAfter(line, lv, SkipIn(line, Len(lv[1]) + 1, Whitespace))
    ELSE None

\* entry_start_pattern.match(line) for ^(LOG|WARN|ERROR)\s*: ; None, or group(1).
entry_start_pattern(line) == EntryStartAfter(line, LevelOf(line))

\* Mutant of ParseLine: a continuation line replaces the record's text instead of
\* being appended to it.
ParseLine_overwrites(st, line) ==
    LET match == entry_start_pattern(line)
    IN  IF match # None
        THEN [entries |-> IF st.current_entry # None
                          THEN Append(st.entries, st.current_entry[1])
                          ELSE st.entries,
              current_entry |-> Some([type |-> match[1], content |-> line])]
        ELSE IF st.current_entry # None
        THEN [entries |-> st.entries,
              current_entry |->
                  Some([type |-> st.current_entry[1].type, content |-> line])]
        ELSE st

\* The loop body (lines 30-50) on the pair st = [entries, current_entry].
ParseLine(st, line) ==
    LET match == entry_start_pattern(line)
    IN  IF match # None
        THEN [entries |-> IF st.current_entry # None
                          THEN Append(st.entries, st.current_entry[1])
                          ELSE st.entries,
              current_entry |-> Some([type |-> match[1], content |-> line])]
        ELSE IF st.current_entry # None
        THEN [entries |-> st.entries,
              current_entry |->
                  Some([type |-> st.current_entry[1].type,
                        content |-> st.current_entry[1].content \o line])]
        ELSE st

\* Mutant of ParseEnd: the entry still open at the end of the file is forgotten.
ParseEnd_forgets_last(st) == st.entries

\* After the loop (lines 52-56): the last entry is appended, entries is returned.
ParseEnd(st) ==
    IF st.current_entry # None
    THEN Append(st.entries, st.current_entry[1])
    ELSE st.entries

RECURSIVE ParseLoop(_, _, _)
ParseLoop(st, f, n) ==
    IF n > Len(f) THEN st ELSE ParseLoop(ParseLine(st, f[n]), f, n + 1)

\* parse_log_file as a function of the file's lines.
parse_log_file(f) ==
    ParseEnd(ParseLoop([entries |-> <<>>, current_entry |-> None], f, 1))

(***************************************************************************)
(* should_include_entry                                                    *)
(***************************************************************************)
default_keywords ==
    << <<"e","r","r","o","r">>, <<"w","a","r","n","i","n","g">>,
       <<"e","r","r">>, <<"w","a","r","n">> >>

\* Mutant of should_include_entry: the extra keywords are not lower-cased.
should_include_entry_raw_keyword(entry, additional_keywords) ==
    IF entry.type \in {ERROR, WARN}
    THEN TRUE
    ELSE IF entry.type = LOG
    THEN LET content_lower == Lower(entry.content)
         IN  IF \E k \in 1..Len(default_keywords) :
                    Contains(content_lower, default_keywords[k])
             THEN TRUE
             ELSE IF additional_keywords # None /\ Len(additional_keywords[1]) > 0
             THEN \E k \in 1..Len(additional_keywords[1]) :
                      Contains(content_lower, additional_keywords[1][k])
             ELSE FALSE
    ELSE FALSE

\* additional_keywords is None or Some(list of str).
should_include_entry(entry, additional_keywords) ==
    IF entry.type \in {ERROR, WARN}
    THEN TRUE
    ELSE IF entry.type = LOG
    THEN LET content_lower == Lower(entry.content)
         IN  IF \E k \in 1..Len(default_keywords) :
                    Contains(content_lower, default_keywords[k])
             THEN TRUE
             ELSE IF additional_keywords # None /\ Len(additional_keywords[1]) > 0
             THEN \E k \in 1..Len(additional_keywords[1]) :
                      Contains(content_lower, Lower(additional_keywords[1][k]))
             ELSE FALSE
    ELSE FALSE

(***************************************************************************)
(* extract_timestamp_and_body                                              *)
(*                                                                         *)
(* A value computed once and used several times is handed on as the        *)
(* parameter of the definition that uses it.                               *)
(***************************************************************************)
NoCategory == [ok |-> FALSE, type |-> <<>>, category |-> <<>>, end |-> 0]

\* (\S+)\s+ from index c1, the category ending before index c2.
CategoryEnd(line, type, c1, c2) ==
    IF c2 > c1 /\ SkipIn(line, c2, Whitespace) > c2
    THEN [ok |-> TRUE, type |-> type, category |-> SubSeq(line, c1, c2 - 1),
          end |-> SkipIn(line, c2, Whitespace)]
    ELSE NoCategory

\* :\s* at index colon, then the category.
CategoryFields(line, type, colon) ==
    IF colon <= Len(line) /\ line[colon] = ":"
    THEN CategoryEnd(line, type, SkipIn(line, colon + 1, Whitespace),
                     SkipNotIn(line, SkipIn(line, colon + 1, Whitespace), Whitespace))
    ELSE NoCategory

\* \s* after the level lv (None or group(1)), then the rest of the prefix.
CategoryAfter(line, lv) ==
    IF lv # None
    THEN CategoryFields(line, lv[1], SkipIn(line, Len(lv[1]) + 1, Whitespace))
    ELSE NoCategory

\* The prefix ^(LOG|WARN|ERROR)\s*:\s*(\S+)\s+ that timestamp_pattern and the
\* category pattern (line 116) share, matched at the start of a line: whether it
\* matches, group(1), group(2) and the index after the prefix.
CategoryMatch(line) == CategoryAfter(line, LevelOf(line))

NoTimestamp == [ok |-> FALSE, type |-> <<>>, timestamp |-> <<>>, message_rest |-> <<>>]

\* (\d+)>(.*)$ with the digits from index d1 to before index d2.
TimestampDigits(line, d1, d2) ==
    IF d2 > d1 /\ d2 <= Len(line) /\ line[d2] = ">"
    THEN [ok |-> TRUE, type |-> <<>>, timestamp |-> SubSeq(line, d1, d2 - 1),
          message_rest |-> SubSeq(line, d2 + 1, Len(line))]
    ELSE NoTimestamp

\* t:(\d+)>(.*)$ at index i of a line without "\n": whether it matches, group(3)
\* and group(4) of timestamp_pattern.
TimestampAt(line, i) ==
    IF MatchesAt(line, i, <<"t", ":">>)
    THEN TimestampDigits(line, i + 2, SkipIn(line, i + 2, Digits))
    ELSE NoTimestamp

\* Mutant of FrameDigitsEnd: the \s* after the comma is left out of the group.
FrameDigitsEnd_no_space(line, i, d2) ==
    IF d2 > i + 2 /\ d2 <= Len(line) /\ line[d2] = ","
    THEN d2 + 1
    ELSE i

\* \d+,\s* of the optional group, the digits from index i+2 to before index d2: the
\* index after the group, or i when the group does not match.
FrameDigitsEnd(line, i, d2) ==
    IF d2 > i + 2 /\ d2 <= Len(line) /\ line[d2] = ","
    THEN SkipIn(line, d2 + 1, Whitespace)
    ELSE i

\* (f:\d+,\s*) at index i: the index after the group, or i when it does not match.
FrameGroupEnd(line, i) ==
    IF MatchesAt(line, i, <<"f", ":">>)
    THEN FrameDigitsEnd(line, i, SkipIn(line, i + 2, Digits))
    ELSE i

\* The optional group is tried first (grouped), then the pattern without it (plain).
FirstMatch(type, grouped, plain) ==
    IF grouped.ok THEN [grouped EXCEPT !.type = type]
    ELSE IF plain.ok THEN [plain EXCEPT !.type = type]
    ELSE NoTimestamp

\* The rest of timestamp_pattern after its prefix pre.
TimestampAfter(line, pre) ==
    IF pre.ok
    THEN FirstMatch(pre.type, TimestampAt(line, FrameGroupEnd(line, pre.end)),
                    TimestampAt(line, pre.end))
    ELSE NoTimestamp

\* timestamp_pattern.match(first_line): whether it matches and groups 1, 3 and 4.
timestamp_pattern(line) == TimestampAfter(line, CategoryMatch(line))

Space == <<" ">>
Newline == <<"\n">>

\* Mutant of BuildBody: the first line is left as it is, timestamp included.
BuildBody_keeps_timestamp(content, rest, match, category_match) ==
    IF match.ok
    THEN [timestamp |-> Some(match.timestamp), body |-> Strip(content)]
    ELSE [timestamp |-> None, body |-> Strip(content)]

\* Lines 111-125, with the results of the two pattern matches.
BuildBody(content, rest, match, category_match) ==
    IF match.ok
    THEN [timestamp |-> Some(match.timestamp),
          body |-> Strip(match.type \o Space \o <<":">> \o Space
                         \o (IF category_match.ok THEN category_match.category
                             ELSE <<>>)
                         \o match.message_rest
                         \o (IF Len(rest) > 0 THEN Newline \o rest ELSE <<>>))]
    ELSE [timestamp |-> None, body |-> Strip(content)]

\* Lines 106-110 and 116: content.split('\n', 1) at the first "\n", index nl (past
\* the end when there is none), and the two matches on the first line.
SplitAndMatch(content, nl) ==
    BuildBody(content, SubSeq(content, nl + 1, Len(content)),
              timestamp_pattern(SubSeq(content, 1, nl - 1)),
              CategoryMatch(SubSeq(content, 1, nl - 1)))

\* Returns [timestamp |-> None or Some(digits), body |-> str].
extract_timestamp_and_body(content) ==
    SplitAndMatch(content, SkipNotIn(content, 1, {"\n"}))

(***************************************************************************)
(* sorted(), int() and str() of the Python runtime                         *)
(***************************************************************************)
\* x inserted into the sorted list s after the p items whose key is not larger.
InsertAfter(s, x, p) == SubSeq(s, 1, p) \o <<x>> \o SubSeq(s, p + 1, Len(s))

InsertByKey(s, x) ==
    InsertAfter(s, x, Cardinality({k \in 1..Len(s) : s[k].key <= x.key}))

\* sorted() on a list of [key, val] pairs with integer keys: a stable sort.
RECURSIVE SortedByKey(_)
SortedByKey(q) ==
    IF Len(q) = 0
    THEN <<>>
    ELSE InsertByKey(SortedByKey(SubSeq(q, 1, Len(q) - 1)), q[Len(q)])

Values(q) == [k \in 1..Len(q) |-> q[k].val]

\* CPython's default limit on the digits of a str that int() converts
\* (sys.int_info.default_max_str_digits): int() raises ValueError beyond it.
int_max_str_digits == 4300

DigitChars == <<"0", "1", "2", "3", "4", "5", "6", "7", "8", "9">>

RECURSIVE DecimalValue(_)
DecimalValue(s) ==
    IF Len(s) = 0
    THEN 0
    ELSE 10 * DecimalValue(SubSeq(s, 1, Len(s) - 1))
         + (CHOOSE d \in 0..9 : DigitChars[d + 1] = s[Len(s)])

\* int(s) for a str of decimal digits: [raised, value].
int(s) ==
    IF Len(s) > int_max_str_digits
    THEN [raised |-> TRUE, value |-> 0]
    ELSE [raised |-> FALSE, value |-> DecimalValue(s)]

\* str(n) for n >= 0
RECURSIVE str(_)
str(n) ==
    IF n < 10 THEN <<DigitChars[n + 1]>>
    ELSE str(n \div 10) \o <<DigitChars[(n % 10) + 1]>>

(***************************************************************************)
(* deduplicate_entries                                                     *)
(***************************************************************************)
\* `if timestamp`: neither None nor the empty str.
Truthy(timestamp) == timestamp # None /\ Len(timestamp[1]) > 0

\* body_to_entry is the dict as the list of its values in insertion order; the key
\* of a value is its 'body'.
HasKey(dict, body) == \E k \in 1..Len(dict) : dict[k].body = body

\* Mutant of DedupWith: a duplicate's timestamp is not collected.
DedupWith_drops_duplicates(dict, entry, tb) ==
    IF ~HasKey(dict, tb.body)
    THEN Append(dict, [type |-> entry.type,
                       content |-> entry.content,
                       body |-> tb.body,
                       timestamps |-> IF Truthy(tb.timestamp)
                                      THEN <<tb.timestamp[1]>> ELSE <<>>,
                       first_index |-> Len(dict)])
    ELSE dict

\* Mutant of DedupWith: the group keeps the body in place of the record's text.
DedupWith_stores_body(dict, entry, tb) ==
    IF ~HasKey(dict, tb.body)
    THEN Append(dict, [type |-> entry.type,
                       content |-> tb.body,
                       body |-> tb.body,
                       timestamps |-> IF Truthy(tb.timestamp)
                                      THEN <<tb.timestamp[1]>> ELSE <<>>,
                       first_index |-> Len(dict)])
    ELSE IF Truthy(tb.timestamp)
    THEN [k \in 1..Len(dict) |->
             IF dict[k].body = tb.body
             THEN [dict[k] EXCEPT !.timestamps = Append(@, tb.timestamp[1])]
             ELSE dict[k]]
    ELSE dict

\* Lines 139-151, tb being the (timestamp, body) of the entry.
DedupWith(dict, entry, tb) ==
    IF ~HasKey(dict, tb.body)
    THEN Append(dict, [type |-> entry.type,
                       content |-> entry.content,
                       body |-> tb.body,
                       timestamps |-> IF Truthy(tb.timestamp)
                                      THEN <<tb.timestamp[1]>> ELSE <<>>,
                       first_index |-> Len(dict)])
    ELSE IF Truthy(tb.timestamp)
    THEN [k \in 1..Len(dict) |->
             IF dict[k].body = tb.body
             THEN [dict[k] EXCEPT !.timestamps = Append(@, tb.timestamp[1])]
             ELSE dict[k]]
    ELSE dict

\* The loop body (lines 137-151).
DedupEntry(dict, entry) ==
    DedupWith(dict, entry, extract_timestamp_and_body(entry.content))

\* Mutant of SortByFirstIndex: the largest first_index comes first.
SortByFirstIndex_reversed(values) ==
    Values(SortedByKey([k \in 1..Len(values) |->
                          [key |-> 0 - values[k].first_index, val |-> values[k]]]))

\* sorted(values, key=lambda x: x['first_index']) (line 154), values being
\* body_to_entry.values().
SortByFirstIndex(values) ==
    Values(SortedByKey([k \in 1..Len(values) |->
                          [key |-> values[k].first_index, val |-> values[k]]]))

RECURSIVE DedupLoop(_, _, _)
DedupLoop(dict, list, n) ==
    IF n > Len(list) THEN dict ELSE DedupLoop(DedupEntry(dict, list[n]), list, n + 1)

\* deduplicate_entries on a list of dicts with 'type' and 'content'.
deduplicate_entries(list) == SortByFirstIndex(DedupLoop(<<>>, list, 1))

(***************************************************************************)
(* format_timestamp_range                                                  *)
(***************************************************************************)
NotAvailable == <<"N", "/", "A">>

\* Line 166 on the sorted list.
RangeOf(sorted_ts) ==
    sorted_ts[1] \o <<" ", "~", " ">> \o sorted_ts[Len(sorted_ts)]
    \o <<" ", "(", "x">> \o str(Len(sorted_ts)) \o <<")">>

\* Returns [raised |-> whether ValueError propagates, value |-> the str returned].
format_timestamp_range(timestamps) ==
    IF Len(timestamps) = 0
    THEN [raised |-> FALSE, value |-> NotAvailable]
    ELSE IF Len(timestamps) = 1
    THEN [raised |-> FALSE, value |-> timestamps[1]]
    ELSE IF \E k \in 1..Len(timestamps) : int(timestamps[k]).raised
    THEN [raised |-> TRUE, value |-> <<>>]
    ELSE [raised |-> FALSE,
          value |-> RangeOf(Values(SortedByKey(
                        [k \in 1..Len(timestamps) |->
                            [key |-> int(timestamps[k]).value,
                             val |-> timestamps[k]]])))]

(***************************************************************************)
(* generate_report                                                         *)
(***************************************************************************)
EntryMarker(i) ==
    <<"-", "-", "-", " ", "E", "n", "t", "r", "y", " ">> \o str(i)
    \o <<" ", "-", "-", "-">> \o Newline

TimestampLabel == <<"T", "i", "m", "e", "s", "t", "a", "m", "p", ":", " ">>

(***************************************************************************)
(* Inputs                                                                  *)
(***************************************************************************)
SeqsUpTo(S, n) == UNION {[1..k -> S] : k \in 0..n}

(***************************************************************************)
(* SpecParse: parse_log_file, one loop iteration per step.                 *)
(***************************************************************************)
\* Lines ending in "\n", as the iterator yields them anywhere in a file.
TerminatedLines ==
    { LOG \o <<":", " ", "a", "\n">>,
      WARN \o <<":", "\n">>,
      ERROR \o <<" ", ":", " ", "b", "\n">>,
      <<"\t", "a", "t", " ", "x", "\n">>,
      <<" ">> \o LOG \o <<":", " ", "a", "\n">>,
      LOG \o <<" ", "a", ":", "\n">> }

\* A last line without "\n".
UnterminatedLines == { ERROR \o <<":">>, <<"y">> }

ParseFiles ==
    { body \o tail : body \in SeqsUpTo(TerminatedLines, MaxLines),
                     tail \in {<<>>} \cup {<<l>> : l \in UnterminatedLines} }

InitParse ==
    /\ pc = "parse"
    /\ lines \in ParseFiles
    /\ entries = <<>>
    /\ filtered_entries = <<>>
    /\ body_to_entry = <<>>
    /\ unique_entries = <<>>
    /\ rerun_entries = None
    /\ timestamp_list = <<>>
    /\ keywords = None
    /\ current_entry = None
    /\ pos = 0
    /\ input_exists = TRUE
    /\ output_file = None
    /\ stderr = <<>>
    /\ result = None
    /\ exit_code = None

\* for line in f: one iteration.
ParseIterate ==
    /\ pc = "parse"
    /\ pos < Len(lines)
    /\ LET st == ParseLine([entries |-> entries, current_entry |-> current_entry],
                           lines[pos + 1])
       IN  /\ entries' = st.entries
           /\ current_entry' = st.current_entry
    /\ pos' = pos + 1
    /\ UNCHANGED <<lines, filtered_entries, body_to_entry, unique_entries,
                   rerun_entries, timestamp_list, keywords, input_exists, output_file,
                   stderr, result, exit_code, pc>>

\* The iterator is exhausted: the last entry is appended and entries returned.
ParseReturn ==
    /\ pc = "parse"
    /\ pos = Len(lines)
    /\ entries' = ParseEnd([entries |-> entries, current_entry |-> current_entry])
    /\ current_entry' = None
    /\ pc' = "parse_return"
    /\ UNCHANGED <<lines, filtered_entries, body_to_entry, unique_entries,
                   rerun_entries, timestamp_list, keywords, pos, input_exists,
                   output_file, stderr, result, exit_code>>

NextParse == ParseIterate \/ ParseReturn

SpecParse == InitParse /\ [][NextParse]_vars

(***************************************************************************)
(* Claims about parse_log_file (SpecParse).                                *)
(***************************************************************************)
\* A level-tag line, stated on the text: LOG, WARN or ERROR, then whitespace
\* characters only up to a colon.
IsTagLine(line) ==
    \E lv \in {LOG, WARN, ERROR} :
        /\ Len(line) > Len(lv)
        /\ SubSeq(line, 1, Len(lv)) = lv
        /\ \E k \in (Len(lv) + 1)..Len(line) :
               /\ line[k] = ":"
               /\ \A m \in (Len(lv) + 1)..(k - 1) : line[m] \in Whitespace

\* Indices of the tag lines among the first n lines of the file.
TagLines(n) == {i \in 1..n : IsTagLine(lines[i])}

\* The k-th tag line among the first n lines.
KthTagLine(n, k) ==
    CHOOSE t \in TagLines(n) : Cardinality({u \in TagLines(n) : u < t}) = k - 1

\* lines[a] .. lines[b] joined.
RECURSIVE JoinLines(_, _)
JoinLines(a, b) == IF a > b THEN <<>> ELSE lines[a] \o JoinLines(a + 1, b)

RECURSIVE JoinContents(_)
JoinContents(q) ==
    IF Len(q) = 0 THEN <<>> ELSE q[1].content \o JoinContents(Tail(q))

\* C5: when parse_log_file returns, the number of records equals the number of
\* input lines that start with LOG, WARN or ERROR, optional whitespace and a colon.
C5_RecordCountIsTagLineCount ==
    pc = "parse_return" => Len(entries) = Cardinality(TagLines(Len(lines)))

\* C5 witness: a file holding non-tag lines too returned two or more records, one
\* of them opened by a tag line with nothing after its colon.
C5_Witness ==
    /\ pc = "parse_return"
    /\ Len(entries) >= 2
    /\ Len(lines) > Len(entries)
    /\ \E n \in 1..Len(entries) : entries[n].content = WARN \o <<":", "\n">>

\* The records opened so far: the sealed ones, then the open one.
Opened == entries \o current_entry

\* C10: at every point of the scan and in its result, the k-th record is the k-th
\* tag line read followed, verbatim and in order, by the lines read up to the next
\* tag line; so each record starts with a tag line and holds no other, the lines
\* before the first tag line are in no record, and the records' contents joined
\* are the lines read from the first tag line on.
C10_RecordsAreTagLineSegments ==
    pc \in {"parse", "parse_return"} =>
        /\ Len(Opened) = Cardinality(TagLines(pos))
        /\ \A k \in 1..Len(Opened) :
               LET first == KthTagLine(pos, k)
                   last == IF k < Len(Opened) THEN KthTagLine(pos, k + 1) - 1 ELSE pos
               IN  /\ Opened[k].content = JoinLines(first, last)
                   /\ \E lv \in {LOG, WARN, ERROR} :
                          /\ Opened[k].type = lv
                          /\ SubSeq(lines[first], 1, Len(lv)) = lv
                   /\ \A i \in (first + 1)..last : ~IsTagLine(lines[i])
        /\ JoinContents(Opened) =
               IF TagLines(pos) = {} THEN <<>> ELSE JoinLines(KthTagLine(pos, 1), pos)

\* C10 witness: the scan returned a record made of a tag line and the two
\* continuation lines after it, from a file that starts with a line of no record.
C10_Witness ==
    /\ pc = "parse_return"
    /\ Len(lines) >= 4
    /\ ~IsTagLine(lines[1])
    /\ \E k \in 1..Len(entries) : \E i \in 2..(Len(lines) - 2) :
           /\ IsTagLine(lines[i])
           /\ entries[k].content = lines[i] \o lines[i + 1] \o lines[i + 2]
           /\ ~IsTagLine(lines[i + 1])
           /\ ~IsTagLine(lines[i + 2])

(***************************************************************************)
(* SpecFilter: should_include_entry on one parsed record.                  *)
(***************************************************************************)
\* Text after "<LEVEL>: " of the records filtered.
FilterMessages ==
    { <<"o", "k", "\n">>,
      <<"a", "n", " ", "E", "r", "r", "o", "r", "\n">>,
      <<"t", "E", "R", "R", "a", "i", "n", "\n">>,
      <<"W", "a", "r", "n", "i", "n", "g", "\n">>,
      <<"t", ":", "1", ">", "H", "e", "l", "l", "o", "\n">>,
      <<"o", "k", "\n", " ", "a", "t", " ", "w", "A", "r", "N", "\n">>,
      <<"x", "R", "a", "y", "\n">>,
      <<"\n">> }

FilterEntries ==
    { [type |-> lv, content |-> lv \o <<":", " ">> \o m] :
          lv \in {LOG, WARN, ERROR}, m \in FilterMessages }

KeywordPool == { <<"H", "e", "l", "l", "o">>, <<"r", "a", "y">> }

InitFilter ==
    /\ pc = "filter"
    /\ entries \in {<<e>> : e \in FilterEntries}
    /\ keywords \in {None} \cup {Some(k) : k \in SeqsUpTo(KeywordPool, MaxKeywords)}
    /\ lines = <<>>
    /\ filtered_entries = <<>>
    /\ body_to_entry = <<>>
    /\ unique_entries = <<>>
    /\ rerun_entries = None
    /\ timestamp_list = <<>>
    /\ current_entry = None
    /\ pos = 0
    /\ input_exists = TRUE
    /\ output_file = None
    /\ stderr = <<>>
    /\ result = None
    /\ exit_code = None

FilterCall ==
    /\ pc = "filter"
    /\ result' = Some(should_include_entry(entries[1], keywords))
    /\ pc' = "filter_return"
    /\ UNCHANGED <<lines, entries, filtered_entries, body_to_entry, unique_entries,
                   rerun_entries, timestamp_list, keywords, current_entry, pos,
                   input_exists, output_file, stderr, exit_code>>

NextFilter == FilterCall

SpecFilter == InitFilter /\ [][NextFilter]_vars

\* needle occurs in hay as a contiguous piece.
IsSubstring(needle, hay) ==
    \E a \in 1..(Len(hay) + 1) : \E b \in (a - 1)..Len(hay) : SubSeq(hay, a, b) = needle

\* The keywords a LOG record is searched for: the four built-in ones and the
\* lower-cased extra ones.
SearchedKeywords(extra) ==
    { <<"e", "r", "r", "o", "r">>, <<"w", "a", "r", "n", "i", "n", "g">>,
      <<"e", "r", "r">>, <<"w", "a", "r", "n">> }
    \cup (IF extra = None THEN {} ELSE {Lower(extra[1][k]) : k \in 1..Len(extra[1])})

\* C3: the call returns TRUE exactly when the level is WARN or ERROR, or the level
\* is LOG and the lower-cased full text contains a built-in keyword or a
\* lower-cased extra keyword; and the call leaves the record as it was.
C3_KeptIffLevelOrKeyword ==
    [][pc' = "filter_return" =>
         /\ result' = Some(\/ entries[1].type \in {WARN, ERROR}
                           \/ /\ entries[1].type = LOG
                              /\ \E kw \in SearchedKeywords(keywords) :
                                     IsSubstring(kw, Lower(entries[1].content)))
         /\ entries' = entries]_vars

\* C3 witness: a LOG record without a built-in keyword was kept because an extra
\* keyword matches it in another letter case.
C3_Witness ==
    /\ pc = "filter_return"
    /\ entries[1].type = LOG
    /\ result = Some(TRUE)
    /\ keywords # None
    /\ ~IsSubstring(<<"e", "r", "r">>, Lower(entries[1].content))
    /\ ~IsSubstring(<<"w", "a", "r", "n">>, Lower(entries[1].content))
    /\ \A k \in 1..Len(keywords[1]) : ~IsSubstring(keywords[1][k], entries[1].content)

(***************************************************************************)
(* SpecExtract: extract_timestamp_and_body on one record text.             *)
(***************************************************************************)
\* Record texts: a tag, then every combination of the pieces a first line is made
\* of (present, absent or malformed), then the continuation lines.
ExtractContents ==
    { lv \o ws1 \o <<":">> \o ws2 \o cat \o ws3 \o frame \o stamp \o msg \o cont :
          lv \in {LOG, ERROR},
          ws1 \in {<<>>, <<" ">>},
          ws2 \in {<<>>, <<" ">>},
          cat \in {<<>>, <<"c">>, <<"f", ":", "1", ",">>},
          ws3 \in {<<>>, <<" ">>, <<"\t", " ">>},
          frame \in {<<>>, <<"f", ":", "0", ",">>, <<"f", ":", "0", ",", " ">>,
                     <<"f", ":", ",">>},
          stamp \in {<<>>, <<"t", ":", "1", ">">>, <<"t", ":", "2", "0", ">">>,
                     <<"t", ":", ">">>, <<"t", ":", "3">>},
          msg \in {<<>>, <<"x">>, <<" ", "t", ":", "5", ">", "y", " ">>},
          cont \in {<<>>, <<"\n">>, <<"\n", " ", "a", "t", " ", "z", "\n", "\n">>} }

InitExtract ==
    /\ pc = "extract"
    /\ entries \in {<<[type |-> SubSeq(c, 1, IF c[1] = "L" THEN 3 ELSE 5),
                       content |-> c]>> : c \in ExtractContents}
    /\ keywords = None
    /\ lines = <<>>
    /\ filtered_entries = <<>>
    /\ body_to_entry = <<>>
    /\ unique_entries = <<>>
    /\ rerun_entries = None
    /\ timestamp_list = <<>>
    /\ current_entry = None
    /\ pos = 0
    /\ input_exists = TRUE
    /\ output_file = None
    /\ stderr = <<>>
    /\ result = None
    /\ exit_code = None

ExtractCall ==
    /\ pc = "extract"
    /\ result' = Some(extract_timestamp_and_body(entries[1].content))
    /\ pc' = "extract_return"
    /\ UNCHANGED <<lines, entries, filtered_entries, body_to_entry, unique_entries,
                   rerun_entries, timestamp_list, keywords, current_entry, pos,
                   input_exists, output_file, stderr, exit_code>>

NextExtract == ExtractCall

SpecExtract == InitExtract /\ [][NextExtract]_vars

(***************************************************************************)
(* Claims about extract_timestamp_and_body (SpecExtract).                  *)
(***************************************************************************)
AllIn(s, a, b, class) == \A k \in a..b : s[k] \in class
NoneIn(s, a, b, class) == \A k \in a..b : s[k] \notin class

\* The optional counter between index d and index e of a line: nothing, or
\* f:<digits>, and then, if `spaced`, optional whitespace.
FrameBetween(line, d, e, spaced) ==
    \/ e = d
    \/ \E h \in (d + 3)..(e - 1) :
           /\ SubSeq(line, d, d + 1) = <<"f", ":">>
           /\ AllIn(line, d + 2, h - 1, Digits)
           /\ line[h] = ","
           /\ IF spaced THEN AllIn(line, h + 1, e - 1, Whitespace) ELSE h = e - 1

\* The timestamp grammar, stated on the text of a line: some way to cut the line
\* into <LEVEL> [spaces] : [spaces] <category> <spaces> [counter] t:<digits> > <rest>
\* satisfies P(level, category, digits, rest, d, g), d being the index where the
\* counters start and g the index of the ">" that ends them.
SomeParse(line, spaced, P(_, _, _, _, _, _)) ==
    LET n == Len(line)
    IN  \E lv \in {LOG, WARN, ERROR} :
          /\ n > Len(lv)
          /\ SubSeq(line, 1, Len(lv)) = lv
          /\ \E a \in (Len(lv) + 1)..n :
               /\ AllIn(line, Len(lv) + 1, a - 1, Whitespace)
               /\ line[a] = ":"
               /\ \E b \in (a + 1)..n :
                    /\ AllIn(line, a + 1, b - 1, Whitespace)
                    /\ \E c \in (b + 1)..n :
                         /\ NoneIn(line, b, c - 1, Whitespace)
                         /\ \E d \in (c + 1)..n :
                              /\ AllIn(line, c, d - 1, Whitespace)
                              /\ \E e \in d..(n - 3) :
                                   /\ FrameBetween(line, d, e, spaced)
                                   /\ SubSeq(line, e, e + 1) = <<"t", ":">>
                                   /\ \E g \in (e + 3)..n :
                                        /\ AllIn(line, e + 2, g - 1, Digits)
                                        /\ line[g] = ">"
                                        /\ P(lv, SubSeq(line, b, c - 1),
                                             SubSeq(line, e + 2, g - 1),
                                             SubSeq(line, g + 1, n), d, g)

MatchesGrammar(line, spaced) ==
    SomeParse(line, spaced, LAMBDA lv, cat, digits, rest, d, g : TRUE)

\* t is s without its leading and trailing whitespace.
IsTrimOf(t, s) ==
    \E a \in 1..(Len(s) + 1) : \E b \in (a - 1)..Len(s) :
        /\ t = SubSeq(s, a, b)
        /\ AllIn(s, 1, a - 1, Whitespace)
        /\ AllIn(s, b + 1, Len(s), Whitespace)
        /\ (a <= b => s[a] \notin Whitespace /\ s[b] \notin Whitespace)

\* Index of the first "\n" of a text, Len+1 when it has none.
FirstNewline(s) ==
    CHOOSE j \in 1..(Len(s) + 1) :
        (j = Len(s) + 1 \/ s[j] = "\n") /\ \A k \in 1..(j - 1) : s[k] # "\n"

\* What the claim says extract_timestamp_and_body returned for the record text,
\* under the grammar with (`spaced`) or without whitespace after the f: counter.
ExtractAsClaimed(content, r, spaced) ==
    LET nl == FirstNewline(content)
        first == SubSeq(content, 1, nl - 1)
        continuation == SubSeq(content, nl, Len(content))
    IN  IF MatchesGrammar(first, spaced)
        THEN ~SomeParse(first, spaced,
                        LAMBDA lv, cat, digits, rest, d, g :
                            ~ /\ r.timestamp = Some(digits)
                              /\ IsTrimOf(r.body,
                                          lv \o <<" ", ":", " ">> \o cat \o rest
                                          \o continuation))
        ELSE /\ r.timestamp = None
             /\ IsTrimOf(r.body, content)

\* C4 as stated: the grammar's counter is f:<digits>, directly followed by t:.
C4_AsStated ==
    pc = "extract_return" => ExtractAsClaimed(entries[1].content, result[1], FALSE)

\* C4 amended: the function returns for every record text; when the first line
\* matches <LEVEL>[spaces]:[spaces]<category><spaces>[f:<digits>,[spaces]]t:<digits>><rest>
\* the timestamp is the digits after t: and the body is <LEVEL> : <category><rest>
\* followed by the continuation lines, trimmed; otherwise the timestamp is absent
\* and the body is the text trimmed.
C4_ExtractFollowsGrammar ==
    pc = "extract_return" =>
        /\ result # None
        /\ ExtractAsClaimed(entries[1].content, result[1], TRUE)

\* C4 witness: a first line with the f: counter followed by a space, a two-digit
\* timestamp, a message and continuation lines was split.
C4_Witness ==
    /\ pc = "extract_return"
    /\ result[1].timestamp = Some(<<"2", "0">>)
    /\ Contains(entries[1].content, <<"f", ":", "0", ",", " ", "t", ":">>)
    /\ Contains(entries[1].content, <<"\n", " ", "a", "t">>)
    /\ Contains(result[1].body, <<"c", "x", "\n", " ", "a", "t", " ", "z">>)

(***************************************************************************)
(* SpecDedup: deduplicate_entries on a list of kept records, one loop      *)
(* iteration per step, then on the list it returned.                       *)
(***************************************************************************)
Rec(lv, text) == [type |-> lv, content |-> lv \o text]

\* Kept records (WARN, ERROR, or LOG with a keyword) as the parser builds them.
DedupPool ==
    { Rec(ERROR, <<":", " ", "c", " ", "f", ":", "0", ",", " ", "t", ":", "7", ">",
                   "b", "o", "o", "m", "\n">>),
      Rec(ERROR, <<":", " ", "c", " ", "f", ":", "1", "2", ",", " ", "t", ":", "9", ">",
                   "b", "o", "o", "m", "\n">>),
      Rec(ERROR, <<" ", ":", " ", "c", "b", "o", "o", "m", "\n">>),
      Rec(ERROR, <<":", " ", "c", " ", "t", ":", "3", ">", "b", "o", "o", "m", "\n",
                   " ", "a", "t", " ", "z", "\n">>),
      Rec(LOG, <<":", " ", "c", " ", "t", ":", "1", "0", "0", ">",
                 "e", "r", "r", "o", "r", "\n">>),
      Rec(LOG, <<":", " ", "c", " ", "t", ":", "2", "0", "0", ">",
                 "e", "r", "r", "o", "r", "\n">>),
      Rec(WARN, <<":", " ", "c", " ", "t", ":", "1", ">", " ", "t", ":", "5", ">",
                  "x", "\n">>) }

InitDedup ==
    /\ pc = "dedup"
    /\ entries \in SeqsUpTo(DedupPool, MaxRecords)
    /\ body_to_entry = <<>>
    /\ pos = 0
    /\ unique_entries = <<>>
    /\ rerun_entries = None
    /\ keywords = None
    /\ lines = <<>>
    /\ filtered_entries = <<>>
    /\ timestamp_list = <<>>
    /\ current_entry = None
    /\ input_exists = TRUE
    /\ output_file = None
    /\ stderr = <<>>
    /\ result = None
    /\ exit_code = None

\* for entry in entries: one iteration.
DedupIterate ==
    /\ pc = "dedup"
    /\ pos < Len(entries)
    /\ body_to_entry' = DedupEntry(body_to_entry, entries[pos + 1])
    /\ pos' = pos + 1
    /\ UNCHANGED <<lines, entries, filtered_entries, unique_entries, rerun_entries,
                   timestamp_list, keywords, current_entry, input_exists,
                   output_file, stderr, result, exit_code, pc>>

\* Line 154: the dict's values, which a dict iterates in insertion order, sorted.
DedupReturn ==
    /\ pc = "dedup"
    /\ pos = Len(entries)
    /\ unique_entries' = SortByFirstIndex(body_to_entry)
    /\ pc' = "dedup_return"
    /\ UNCHANGED <<lines, entries, filtered_entries, body_to_entry, rerun_entries,
                   timestamp_list, keywords, current_entry, pos, input_exists,
                   output_file, stderr, result, exit_code>>

\* deduplicate_entries called on the list it returned.
DedupRerun ==
    /\ pc = "dedup_return"
    /\ rerun_entries' = Some(deduplicate_entries(unique_entries))
    /\ pc' = "rerun_return"
    /\ UNCHANGED <<lines, entries, filtered_entries, body_to_entry, unique_entries,
                   timestamp_list, keywords, current_entry, pos, input_exists,
                   output_file, stderr, result, exit_code>>

NextDedup == DedupIterate \/ DedupReturn \/ DedupRerun

SpecDedup == InitDedup /\ [][NextDedup]_vars

(***************************************************************************)
(* Claims about deduplicate_entries (SpecDedup).                           *)
(***************************************************************************)
\* Canonical body and timestamp of the i-th record handed to deduplicate_entries.
BodyOf(i) == extract_timestamp_and_body(entries[i].content).body
TimestampOf(i) == extract_timestamp_and_body(entries[i].content).timestamp

\* Indices, among the first n records, of those with this canonical body that
\* carry a timestamp, in encounter order.
Contributors(n, body) ==
    SelectSeq([i \in 1..n |-> i],
              LAMBDA i : BodyOf(i) = body /\ TimestampOf(i) # None)

\* The groups are those of the first n records: one group per distinct canonical
\* body, holding the timestamps of the records with that body in encounter order,
\* repeats kept, and the level of the first of them.
GroupsOf(groups, n) ==
    /\ \A i \in 1..n : \E g \in 1..Len(groups) : groups[g].body = BodyOf(i)
    /\ \A g, h \in 1..Len(groups) : g # h => groups[g].body # groups[h].body
    /\ \A g \in 1..Len(groups) :
           /\ \E i \in 1..n :
                  /\ BodyOf(i) = groups[g].body
                  /\ \A j \in 1..(i - 1) : BodyOf(j) # groups[g].body
                  /\ groups[g].type = entries[i].type
           /\ groups[g].timestamps =
                  [k \in 1..Len(Contributors(n, groups[g].body)) |->
                      TimestampOf(Contributors(n, groups[g].body)[k])[1]]

\* C1: after every iteration the dict, and at the end the returned list, hold
\* exactly one group per distinct canonical body seen, whose 'timestamps' are the
\* timestamps of all records with that body in encounter order, repeats kept,
\* records without a timestamp adding nothing, and whose 'type' is the level of
\* the first such record.
C1_OneGroupPerBodyWithAllTimestamps ==
    /\ pc = "dedup" => GroupsOf(body_to_entry, pos)
    /\ pc = "dedup_return" => GroupsOf(unique_entries, Len(entries))

\* C1 witness: a returned group holds a repeated timestamp and the timestamp of a
\* later record, while a record of the same body without a timestamp added none.
C1_Witness ==
    /\ pc = "dedup_return"
    /\ Len(entries) = 3
    /\ \E g \in 1..Len(unique_entries) :
           /\ Len(unique_entries[g].timestamps) = 2
           /\ \A i \in 1..3 : BodyOf(i) = unique_entries[g].body
           /\ \E i \in 1..3 : TimestampOf(i) = None

\* Indices of the records whose canonical body no earlier record has.
FirstOccurrences == {i \in 1..Len(entries) : \A j \in 1..(i - 1) : BodyOf(j) # BodyOf(i)}

\* C2: the n-th group returned has the n-th distinct canonical body met when the
\* records are scanned left to right, and its 'first_index' is n-1.
C2_GroupsInFirstAppearanceOrder ==
    pc = "dedup_return" =>
        /\ Len(unique_entries) = Cardinality(FirstOccurrences)
        /\ \A n \in 1..Len(unique_entries) :
               /\ unique_entries[n].first_index = n - 1
               /\ \E i \in FirstOccurrences :
                      /\ Cardinality({j \in FirstOccurrences : j < i}) = n - 1
                      /\ unique_entries[n].body = BodyOf(i)

\* C2 witness: three records of three distinct bodies were returned as three groups.
C2_Witness ==
    /\ pc = "dedup_return"
    /\ Len(unique_entries) = 3
    /\ BodyOf(1) # BodyOf(2) /\ BodyOf(2) # BodyOf(3) /\ BodyOf(1) # BodyOf(3)

\* C7 as stated: deduplicate_entries on the list it returned returns that list.
C7_AsStated ==
    pc = "rerun_return" => rerun_entries[1] = unique_entries

\* The timestamp of a group's own record, as a list.
OwnTimestamp(group) ==
    IF extract_timestamp_and_body(group.content).timestamp = None
    THEN <<>>
    ELSE extract_timestamp_and_body(group.content).timestamp

\* C7 amended: deduplicate_entries on the list it returned returns as many groups,
\* in the same order, with the same type, content, body and first_index; each
\* group's 'timestamps' becomes the timestamp of the group's own (first) record
\* alone, or the empty list when that record has none.
C7_RerunKeepsGroupsNotTimestamps ==
    pc = "rerun_return" =>
        /\ Len(rerun_entries[1]) = Len(unique_entries)
        /\ \A n \in 1..Len(unique_entries) :
               /\ rerun_entries[1][n].type = unique_entries[n].type
               /\ rerun_entries[1][n].content = unique_entries[n].content
               /\ rerun_entries[1][n].body = unique_entries[n].body
               /\ rerun_entries[1][n].first_index = unique_entries[n].first_index
               /\ rerun_entries[1][n].timestamps = OwnTimestamp(unique_entries[n])

\* C7 witness: the second run returned a group that had two timestamps with one.
C7_Witness ==
    /\ pc = "rerun_return"
    /\ \E n \in 1..Len(unique_entries) :
           /\ Len(unique_entries[n].timestamps) = 2
           /\ Len(rerun_entries[1][n].timestamps) = 1

NonDigits(s) == SelectSeq(s, LAMBDA ch : ch \notin Digits)

FirstLine(s) == SubSeq(s, 1, FirstNewline(s) - 1)

\* Records i < j whose first lines match the grammar and whose texts differ in
\* nothing but the digits of the t: and f: counters, and that are not merged into
\* one group holding both timestamps.
UnmergedPair(i, j) ==
    SomeParse(FirstLine(entries[i].content), TRUE,
        LAMBDA lv1, cat1, ts1, rest1, d1, g1 :
            SomeParse(FirstLine(entries[j].content), TRUE,
                LAMBDA lv2, cat2, ts2, rest2, d2, g2 :
                    /\ d1 = d2
                    /\ SubSeq(entries[i].content, 1, d1 - 1)
                       = SubSeq(entries[j].content, 1, d2 - 1)
                    /\ SubSeq(entries[i].content, g1, Len(entries[i].content))
                       = SubSeq(entries[j].content, g2, Len(entries[j].content))
                    /\ NonDigits(SubSeq(entries[i].content, d1, g1 - 1))
                       = NonDigits(SubSeq(entries[j].content, d2, g2 - 1))
                    /\ ~ /\ BodyOf(i) = BodyOf(j)
                         /\ Cardinality({n \in 1..Len(unique_entries) :
                                            unique_entries[n].body = BodyOf(i)}) = 1
                         /\ \E n \in 1..Len(unique_entries) :
                                \E p, q \in 1..Len(unique_entries[n].timestamps) :
                                    /\ p < q
                                    /\ unique_entries[n].body = BodyOf(i)
                                    /\ unique_entries[n].timestamps[p] = ts1
                                    /\ unique_entries[n].timestamps[q] = ts2))

LogError100 ==
    Rec(LOG, <<":", " ", "c", " ", "t", ":", "1", "0", "0", ">",
               "e", "r", "r", "o", "r", "\n">>)
LogError200 ==
    Rec(LOG, <<":", " ", "c", " ", "t", ":", "2", "0", "0", ">",
               "e", "r", "r", "o", "r", "\n">>)

\* C9: two kept records whose texts differ only in the digits of the t: and f:
\* counters of a grammar-matching first line have the same canonical body and end
\* up in a single group that holds both timestamps; the two LOG records with
\* 'error' and timestamps 100 and 200 give one group formatted '100 ~ 200 (x2)'.
C9_CounterDigitsDoNotSplitGroups ==
    pc = "dedup_return" =>
        /\ \A i, j \in 1..Len(entries) : i < j => ~UnmergedPair(i, j)
        /\ entries = <<LogError100, LogError200>> =>
               /\ Len(unique_entries) = 1
               /\ format_timestamp_range(unique_entries[1].timestamps)
                  = [raised |-> FALSE,
                     value |-> <<"1", "0", "0", " ", "~", " ", "2", "0", "0",
                                 " ", "(", "x", "2", ")">>]

\* C9 witness: two records that differ in the digits of both counters were
\* returned as one group with two timestamps.
C9_Witness ==
    /\ pc = "dedup_return"
    /\ Len(entries) = 2
    /\ Contains(entries[1].content, <<"f", ":", "0", ",">>)
    /\ Contains(entries[2].content, <<"f", ":", "1", "2", ",">>)
    /\ Len(unique_entries) = 1
    /\ unique_entries[1].timestamps = << <<"7">>, <<"9">> >>

(***************************************************************************)
(* SpecFormat: format_timestamp_range on a list of digit strings.          *)
(***************************************************************************)
\* A digit string one digit longer than int() converts.
HugeTimestamp == [k \in 1..(int_max_str_digits + 1) |-> "9"]

\* Timestamps as \d+ captures them: any non-empty run of digits.
TimestampPool ==
    { <<"3">>, <<"1", "0">>, <<"5">>, <<"0", "7">>, <<"7">>, HugeTimestamp }

InitFormat ==
    /\ pc = "format"
    /\ timestamp_list \in SeqsUpTo(TimestampPool, MaxTimestamps)
    /\ result = None
    /\ lines = <<>>
    /\ entries = <<>>
    /\ filtered_entries = <<>>
    /\ body_to_entry = <<>>
    /\ unique_entries = <<>>
    /\ rerun_entries = None
    /\ keywords = None
    /\ current_entry = None
    /\ pos = 0
    /\ input_exists = TRUE
    /\ output_file = None
    /\ stderr = <<>>
    /\ exit_code = None

\* One call of format_timestamp_range: it returns a str or ValueError propagates.
FormatCall ==
    /\ pc = "format"
    /\ result' = Some(format_timestamp_range(timestamp_list))
    /\ pc' = "format_return"
    /\ UNCHANGED <<lines, entries, filtered_entries, body_to_entry, unique_entries,
                   rerun_entries, timestamp_list, keywords, current_entry, pos,
                   input_exists, output_file, stderr, exit_code>>

NextFormat == FormatCall

SpecFormat == InitFormat /\ [][NextFormat]_vars

\* A digit string without its leading zeros.
Significant(s) == SubSeq(s, SkipIn(s, 1, {"0"}), Len(s))

DigitValue(ch) == CHOOSE d \in 0..9 : DigitChars[d + 1] = ch

\* The integer written x is below the integer written y (no leading zeros).
ShorterOrSmaller(x, y) ==
    \/ Len(x) < Len(y)
    \/ /\ Len(x) = Len(y)
       /\ \E k \in 1..Len(x) :
              /\ SubSeq(x, 1, k - 1) = SubSeq(y, 1, k - 1)
              /\ DigitValue(x[k]) < DigitValue(y[k])

\* Integer comparison of two digit strings.
IntegerLess(a, b) == ShorterOrSmaller(Significant(a), Significant(b))

\* The text the claim gives for a list of timestamps.
FormattedAsClaimed(ts, text) ==
    IF Len(ts) = 0 THEN text = NotAvailable
    ELSE IF Len(ts) = 1 THEN text = ts[1]
    ELSE \E lo, hi \in 1..Len(ts) :
             /\ \A k \in 1..Len(ts) : ~IntegerLess(ts[k], ts[lo])
             /\ \A k \in 1..Len(ts) : ~IntegerLess(ts[hi], ts[k])
             /\ text = ts[lo] \o <<" ", "~", " ">> \o ts[hi]
                       \o <<" ", "(", "x">> \o str(Len(ts)) \o <<")">>

\* C6: format_timestamp_range returns 'N/A' for an empty list, the single value
\* for a one-element list, and otherwise '<min> ~ <max> (x<count>)' with min and
\* max the smallest and largest timestamps as integers and count the number of
\* timestamps, repeats included.
C6_FormatsRange ==
    pc = "format_return" =>
        /\ ~result[1].raised
        /\ FormattedAsClaimed(timestamp_list, result[1].value)

\* Whenever format_timestamp_range does return, it returns the claimed text, and
\* it fails to return only when a timestamp is longer than int() converts.
C6_ReturnedTextIsRange ==
    pc = "format_return" =>
        /\ result[1].raised <=>
               /\ Len(timestamp_list) > 1
               /\ \E k \in 1..Len(timestamp_list) :
                      Len(timestamp_list[k]) > int_max_str_digits
        /\ ~result[1].raised => FormattedAsClaimed(timestamp_list, result[1].value)

(***************************************************************************)
(* SpecMain: one run of main, one step per stage of the pipeline and one   *)
(* per entry block of the report.                                          *)
(***************************************************************************)
\* args.keywords.split(',')
RECURSIVE SplitAt(_, _)
SplitComma(s) == SplitAt(s, SkipNotIn(s, 1, {","}))
SplitAt(s, comma) ==
    IF comma > Len(s)
    THEN <<s>>
    ELSE <<SubSeq(s, 1, comma - 1)>> \o SplitComma(SubSeq(s, comma + 1, Len(s)))

StripAll(parts) == [k \in 1..Len(parts) |-> Strip(parts[k])]

\* Lines 232-234: additional_keywords from args.keywords (None or Some(str)).
ParseKeywords(arg) ==
    IF arg = None \/ Len(arg[1]) = 0
    THEN None
    ELSE Some(SelectSeq(StripAll(SplitComma(arg[1])), LAMBDA k : Len(k) > 0))

\* The message of line 222, without the path.
NotFoundMessage ==
    <<"E", "r", "r", "o", "r", ":", " ", "L", "o", "g", " ", "f", "i", "l",
      "e", " ", "n", "o", "t", " ", "f", "o", "u", "n", "d">>

\* What an uncaught ValueError leaves on stderr: the traceback's last line.
ValueErrorMessage ==
    <<"V", "a", "l", "u", "e", "E", "r", "r", "o", "r">>

ReportTitle ==
    <<"=", "=", "=", " ", "P", "r", "o", "j", "e", "c", "t", " ", "Z", "o",
      "m", "b", "o", "i", "d", " ", "S", "e", "r", "v", "e", "r", " ", "L",
      "o", "g", " ", "F", "i", "l", "t", "e", "r", " ", "R", "e", "p", "o",
      "r", "t", " ", "=", "=", "=", "\n">>

\* 'Source: {source_filename}\n' for the file name of this run.
SourceLine ==
    <<"S", "o", "u", "r", "c", "e", ":", " ", "s", "e", "r", "v", "e", "r",
      ".", "t", "x", "t", "\n">>

\* 'Generated: {timestamp}\n' for the time of this run.
GeneratedLine ==
    <<"G", "e", "n", "e", "r", "a", "t", "e", "d", ":", " ", "2", "0", "2",
      "4", "-", "0", "1", "-", "0", "1", " ", "0", "0", ":", "0", "0", ":",
      "0", "0", "\n">>

UniqueLabel ==
    <<"U", "n", "i", "q", "u", "e", " ", "e", "n", "t", "r", "i", "e", "s",
      " ", "f", "o", "u", "n", "d", ":", " ">>

\* The five writes of the header (lines 179-183).
ReportHeader(n) ==
    <<ReportTitle, SourceLine, GeneratedLine, UniqueLabel \o str(n) \o Newline, Newline>>

\* The writes of lines 190-196 for one entry once its range is formatted.
EntryWrites(entry, ts_range) ==
    <<TimestampLabel \o ts_range \o Newline, entry.body>>
    \o (IF Len(entry.body) = 0 \/ entry.body[Len(entry.body)] # "\n"
        THEN <<Newline>> ELSE <<>>)
    \o <<Newline>>

\* Lines of the log file of a run.
MainLines ==
    { ERROR \o <<":", " ", "c", " ", "t", ":", "1", ">", "b", "o", "o", "m", "\n">>,
      ERROR \o <<":", " ", "c", " ", "t", ":", "2", ">", "b", "o", "o", "m", "\n">>,
      ERROR \o <<":", " ", "c", " ", "t", ":">> \o HugeTimestamp
            \o <<">", "b", "o", "o", "m", "\n">>,
      LOG \o <<":", " ", "c", " ", "t", ":", "3", ">", "H", "i", "\n">>,
      <<"\t", "a", "t", " ", "x", "\n">> }

\* Values of --keywords.
MainKeywords == { None, Some(<<" ", "h", "i", ",", ",", "x">>) }

InitMain ==
    /\ pc = "main"
    /\ input_exists \in BOOLEAN
    /\ lines \in IF input_exists THEN SeqsUpTo(MainLines, MaxFileLines) ELSE {<<>>}
    /\ keywords \in MainKeywords
    /\ entries = <<>>
    /\ filtered_entries = <<>>
    /\ body_to_entry = <<>>
    /\ unique_entries = <<>>
    /\ rerun_entries = None
    /\ timestamp_list = <<>>
    /\ current_entry = None
    /\ pos = 0
    /\ output_file = None
    /\ stderr = <<>>
    /\ result = None
    /\ exit_code = None

\* Lines 220-223: the input path does not exist.
MainNotFound ==
    /\ pc = "main"
    /\ ~input_exists
    /\ stderr' = Append(stderr, NotFoundMessage)
    /\ exit_code' = Some(1)
    /\ pc' = "exit"
    /\ UNCHANGED <<lines, entries, filtered_entries, body_to_entry, unique_entries,
                   rerun_entries, timestamp_list, keywords, current_entry, pos,
                   input_exists, output_file, result>>

\* Lines 237-238: entries = parse_log_file(log_file_path).
MainParse ==
    /\ pc = "main"
    /\ input_exists
    /\ entries' = parse_log_file(lines)
    /\ pc' = "filter"
    /\ UNCHANGED <<lines, filtered_entries, body_to_entry, unique_entries,
                   rerun_entries, timestamp_list, keywords, current_entry, pos,
                   input_exists, output_file, stderr, result, exit_code>>

\* Lines 231-245: the additional keywords and the filter.
MainFilter ==
    /\ pc = "filter"
    /\ filtered_entries' =
           SelectSeq(entries,
                     LAMBDA e : should_include_entry(e, ParseKeywords(keywords)))
    /\ pc' = "deduplicate"
    /\ UNCHANGED <<lines, entries, body_to_entry, unique_entries, rerun_entries,
                   timestamp_list, keywords, current_entry, pos, input_exists,
                   output_file, stderr, result, exit_code>>

\* Line 249: unique_entries = deduplicate_entries(filtered_entries).
MainDeduplicate ==
    /\ pc = "deduplicate"
    /\ unique_entries' = deduplicate_entries(filtered_entries)
    /\ pc' = "report"
    /\ UNCHANGED <<lines, entries, filtered_entries, body_to_entry, rerun_entries,
                   timestamp_list, keywords, current_entry, pos, input_exists,
                   output_file, stderr, result, exit_code>>

\* Lines 177-183: generate_report opens the output file and writes the header.
\* output_file is the list of the strings written so far.
ReportOpen ==
    /\ pc = "report"
    /\ output_file' = Some(ReportHeader(Len(unique_entries)))
    /\ pos' = 0
    /\ pc' = "entries"
    /\ UNCHANGED <<lines, entries, filtered_entries, body_to_entry, unique_entries,
                   rerun_entries, timestamp_list, keywords, current_entry,
                   input_exists, stderr, result, exit_code>>

\* Lines 187-196 for one entry whose range is ts_range.
ReportEntry(ts_range) ==
    IF ts_range.raised
    THEN /\ output_file' = Some(Append(output_file[1], EntryMarker(pos + 1)))
         /\ stderr' = Append(stderr, ValueErrorMessage)
         /\ exit_code' = Some(1)
         /\ pc' = "exit"
         /\ pos' = pos
    ELSE /\ output_file' =
                Some(Append(output_file[1], EntryMarker(pos + 1))
                     \o EntryWrites(unique_entries[pos + 1], ts_range.value))
         /\ pos' = pos + 1
         /\ UNCHANGED <<stderr, exit_code, pc>>

\* One iteration of the loop of lines 186-196. The marker is written before
\* format_timestamp_range is called; a ValueError that it raises leaves the with
\* block, which closes the file with what was written, and ends the process with
\* a traceback and exit code 1.
ReportWriteEntry ==
    /\ pc = "entries"
    /\ pos < Len(unique_entries)
    /\ ReportEntry(format_timestamp_range(unique_entries[pos + 1].timestamps))
    /\ UNCHANGED <<lines, entries, filtered_entries, body_to_entry, unique_entries,
                   rerun_entries, timestamp_list, keywords, current_entry,
                   input_exists, result>>

\* Lines 253-256: generate_report returns and main returns 0.
MainReturn ==
    /\ pc = "entries"
    /\ pos = Len(unique_entries)
    /\ exit_code' = Some(0)
    /\ pc' = "exit"
    /\ UNCHANGED <<lines, entries, filtered_entries, body_to_entry, unique_entries,
                   rerun_entries, timestamp_list, keywords, current_entry, pos,
                   input_exists, output_file, stderr, result>>

NextMain ==
    \/ MainNotFound
    \/ MainParse
    \/ MainFilter
    \/ MainDeduplicate
    \/ ReportOpen
    \/ ReportWriteEntry
    \/ MainReturn

SpecMain == InitMain /\ [][NextMain]_vars

(***************************************************************************)
(* Claims about main (SpecMain).                                           *)
(***************************************************************************)
StartsWith(s, p) == MatchesAt(s, 1, p)

\* The writes are a complete report of the groups: the five header writes, then
\* for each group in turn its marker, its 'Timestamp: ' line, its body and the
\* blank line that ends the block, and nothing else.
RECURSIVE BlocksFrom(_, _, _, _)
BlocksFrom(writes, k, groups, n) ==
    IF n > Len(groups)
    THEN k = Len(writes) + 1
    ELSE /\ k + 3 <= Len(writes)
         /\ writes[k] = EntryMarker(n)
         /\ StartsWith(writes[k + 1], TimestampLabel)
         /\ writes[k + 2] = groups[n].body
         /\ \/ /\ writes[k + 3] = Newline
               /\ BlocksFrom(writes, k + 4, groups, n + 1)
            \/ /\ k + 4 <= Len(writes)
               /\ writes[k + 3] = Newline
               /\ writes[k + 4] = Newline
               /\ BlocksFrom(writes, k + 5, groups, n + 1)

CompleteReport(writes, groups) ==
    /\ Len(writes) >= 5
    /\ writes[1] = ReportTitle
    /\ StartsWith(writes[2], <<"S", "o", "u", "r", "c", "e", ":", " ">>)
    /\ StartsWith(writes[3], <<"G", "e", "n", "e", "r", "a", "t", "e", "d", ":", " ">>)
    /\ writes[4] = UniqueLabel \o str(Len(groups)) \o Newline
    /\ writes[5] = Newline
    /\ BlocksFrom(writes, 6, groups, 1)

\* C8: a run of main that ended is all-or-nothing. With no input file it returned
\* 1 after a diagnostic on stderr and the output file was never opened; otherwise
\* it parsed, filtered, deduplicated and reported and returned 0 with the
\* complete report written; no run ended with a partially written report.
C8_AllOrNothing ==
    pc = "exit" =>
        /\ ~input_exists =>
               /\ exit_code = Some(1)
               /\ stderr # <<>>
               /\ output_file = None
        /\ input_exists =>
               /\ exit_code = Some(0)
               /\ entries = parse_log_file(lines)
               /\ filtered_entries =
                      SelectSeq(entries, LAMBDA e :
                                   should_include_entry(e, ParseKeywords(keywords)))
               /\ unique_entries = deduplicate_entries(filtered_entries)
        /\ exit_code = Some(0) =>
               output_file # None /\ CompleteReport(output_file[1], unique_entries)
        /\ output_file # None => CompleteReport(output_file[1], unique_entries)

\* A run ends with a partial report only after format_timestamp_range raised on a
\* timestamp longer than int() converts; every other run is all-or-nothing.
C8_PartialOnlyOnValueError ==
    pc = "exit" =>
        /\ ~input_exists =>
               exit_code = Some(1) /\ stderr # <<>> /\ output_file = None
        /\ exit_code = Some(0) =>
               output_file # None /\ CompleteReport(output_file[1], unique_entries)
        /\ (input_exists /\ exit_code # Some(0)) =>
               /\ exit_code = Some(1)
               /\ stderr = <<ValueErrorMessage>>
               /\ \E n \in 1..Len(unique_entries) :
                      /\ format_timestamp_range(unique_entries[n].timestamps).raised
                      /\ output_file[1][Len(output_file[1])] = EntryMarker(n)

====
